---- MODULE Spec2Model ----
(***************************************************************************)
(* A model of the Python helpers of the repository.                         *)
(*                                                                          *)
(* Spec: helper-scripts/generateSampleData.py as a whole: the retrying GET  *)
(* (sendRequest), the schema-driven record mapper (toDataClass), the two    *)
(* resource getters (getReciters, getSurahs) and the pipeline driver (main) *)
(* with its exit codes and its output file.  Time is counted in units of    *)
(* 125 ms, so that backoff_factor = 0.125 s is one unit and every delay is  *)
(* an integer.                                                              *)
(*                                                                          *)
(* SpecSer: the mapper and the serializer (__str__ of the three records and *)
(* the joins of main) applied to one payload, text being rendered character *)
(* by character.                                                            *)
(*                                                                          *)
(* SpecKt: ktString and surahToKotlin of the older generator,               *)
(* helper_scripts/generateSampleData.py.                                    *)
(*                                                                          *)
(* SpecSketch: helper-scripts/generateSurahDrawables.py, the sketch that    *)
(* saves one frame per surah, headless (setup) or interactive (the          *)
(* getSurahs thread and the draw callback), time in milliseconds.           *)
(***************************************************************************)
EXTENDS Integers, Sequences, FiniteSets, TLC

VARIABLES
    pc,         \* position of main()
    total,      \* Retry.total of the request in progress (retries left)
    outcomes,   \* what each GET attempt of the request in progress met
    sleeps,     \* the delays slept between the attempts of that request
    response,   \* what sendRequest returned to its caller
    stderr,     \* the lines written to sys.stderr, in order
    reciters,   \* main's local `reciters`
    surahs,     \* main's local `surahs`
    fetched,    \* resources whose sendRequest call has returned
    mapped,     \* resources for which toDataClass has been called
    kotlin,     \* the two serialized collections, once built
    file,       \* SampleData.kt on disk
    exitCode,   \* the process exit status, NoExit while running
    \* the mapper and the serializer applied to one payload
    stage,      \* "idle", "input", then "mapped" or "failed", then "rendered"
    payload,    \* the resource and its JSON objects as the server sent them
    records,    \* what [toDataClass(item, cls) for item in data] came to
    rendered,   \* the joined str() of the records
    \* surahToKotlin of the older script, helper_scripts/generateSampleData.py
    surah,      \* its argument, a chapter as a dict
    escaped,    \* what ktString(surah["name"]) returned
    line,       \* what surahToKotlin returned
    \* the sketch, helper-scripts/generateSurahDrawables.py
    isHeadless,         \* the --headless flag
    now,                \* what py5.millis() returns at this moment
    loading,            \* global `loading`
    surahIndex,         \* global `surahIndex`
    previousTimestamp,  \* global `previousTimestamp`
    looping,            \* whether py5 goes on calling draw
    loader,             \* position of the getSurahs thread
    wakeAt,             \* when the thread's sleep(3) is over
    drawPc,             \* position of the draw callback, "idle" between calls
    currentTimestamp,   \* draw's local `currentTimestamp`
    elapsedTime,        \* draw's local `elapsedTime`
    loaded,             \* the value `previousTimestamp += ...` has read
    phase,              \* the branch the last draw callback took
    index,              \* setup's loop variable `index`
    exited,             \* whether py5.exit_sketch() was called
    saved               \* the frames saveFrame wrote, in order

mainVars == <<pc, total, outcomes, sleeps, response, stderr, reciters, surahs,
              fetched, mapped, kotlin, file, exitCode>>
serVars == <<stage, payload, records, rendered>>
ktVars == <<surah, escaped, line>>
sketchVars == <<isHeadless, now, loading, surahIndex, previousTimestamp, looping,
                loader, wakeAt, drawPc, currentTimestamp, elapsedTime, loaded, phase,
                index, exited, saved>>
vars == <<mainVars, serVars, ktVars, sketchVars>>

\* what the steps of one program leave alone
notMain == <<serVars, ktVars, sketchVars>>
notSer == <<mainVars, ktVars, sketchVars>>
notKt == <<mainVars, serVars, sketchVars>>
notSketch == <<mainVars, serVars, ktVars>>

(***************************************************************************)
(* Bounds of the model.                                                     *)
(***************************************************************************)
\* longest "reciters" / "suwar" array the server sends
MaxItems == 1
\* longest text a string field of a drawn wire object holds
MaxStrLen == 2
\* longest name handed to surahToKotlin
MaxNameLen == 4
\* length of the sketch's list `surahs`, its placeholder included
NumSurahs == 3
\* the sketch is followed until py5.millis() reaches this value
MaxMillis == 9000
\* the value of a Retry-After header, in units of 125 ms
RetryAfterUnits == 8

(***************************************************************************)
(* JSON values as they arrive on the wire: tagged scalars and lists;        *)
(* a wire object is a function from its keys to values.  Text is a sequence *)
(* of characters.                                                           *)
(***************************************************************************)
IntV(n) == [t |-> "int", v |-> n]
StrV(s) == [t |-> "str", v |-> s]
ListV(s) == [t |-> "list", v |-> s]
DictV(f) == [t |-> "dict", v |-> f]

MoshafWire == DictV([id |-> IntV(1), name |-> StrV(<<"H", "a", "f", "s">>),
               server |-> StrV(<<"s", "r", "v">>), surah_total |-> IntV(114),
               moshaf_type |-> IntV(11), surah_list |-> StrV(<<"1", ",", "2">>)])

\* a recitation whose surah_list is absent
MoshafWireNoList == DictV([id |-> IntV(2), name |-> StrV(<<"W", "a", "r", "s", "h">>),
                     server |-> StrV(<<"s", "r", "v">>), surah_total |-> IntV(1),
                     moshaf_type |-> IntV(21)])

ReciterWire == DictV([id |-> IntV(1), name |-> StrV(<<"A">>), letter |-> StrV(<<"A">>),
                date |-> StrV(<<"2", "0", "2", "0">>),
                moshaf |-> ListV(<<MoshafWire>>)])

\* a reciter with zero recitations
ReciterWireNoMoshaf == DictV([id |-> IntV(2), name |-> StrV(<<"B">>), letter |-> StrV(<<"B">>),
                        date |-> StrV(<<"2", "0", "2", "1">>), moshaf |-> ListV(<<>>)])

\* a reciter whose date is absent
ReciterWireNoDate == DictV([id |-> IntV(3), name |-> StrV(<<"C">>), letter |-> StrV(<<"C">>),
                      moshaf |-> ListV(<<MoshafWire>>)])

\* a reciter one of whose recitations lacks a field
ReciterWireBadNested == DictV([id |-> IntV(4), name |-> StrV(<<"D">>), letter |-> StrV(<<"D">>),
                         date |-> StrV(<<"2", "0", "2", "2">>),
                         moshaf |-> ListV(<<MoshafWire, MoshafWireNoList>>)])

\* a reciter carrying a key the schema does not declare
ReciterWireExtra == DictV([id |-> IntV(5), name |-> StrV(<<"E">>), letter |-> StrV(<<"E">>),
                     date |-> StrV(<<"2", "0", "2", "3">>), moshaf |-> ListV(<<>>),
                     img |-> StrV(<<"x">>)])

ReciterWires == {ReciterWire, ReciterWireNoMoshaf, ReciterWireNoDate,
                 ReciterWireBadNested, ReciterWireExtra}

SurahWire == DictV([id |-> IntV(1), name |-> StrV(<<"A", "l", "-", "F", "a", "t", "i", "h", "a">>),
              start_page |-> IntV(1), end_page |-> IntV(1), makkia |-> IntV(1),
              type |-> IntV(1)])

\* a chapter whose type is absent
SurahWireNoType == DictV([id |-> IntV(2), name |-> StrV(<<"B">>), start_page |-> IntV(2),
                    end_page |-> IntV(49), makkia |-> IntV(0)])

\* a chapter carrying a key the schema does not declare
SurahWireExtra == DictV([id |-> IntV(3), name |-> StrV(<<"C">>), start_page |-> IntV(50),
                   end_page |-> IntV(76), makkia |-> IntV(0), type |-> IntV(1),
                   ayat |-> IntV(200)])

SurahWires == {SurahWire, SurahWireNoType, SurahWireExtra}

(***************************************************************************)
(* The three dataclasses: fields in declaration order, each with its type   *)
(* and the wire name of its Annotated[...] override (its own name without). *)
(***************************************************************************)
Field(n, w, ty) == [name |-> n, wire |-> w, type |-> ty]

\* the Surah schema with the two page overrides exchanged
SurahFieldsSwapped == <<Field("id", "id", "int"), Field("name", "name", "str"),
                        Field("startPage", "end_page", "int"),
                        Field("endPage", "start_page", "int"),
                        Field("makkia", "makkia", "int"), Field("type", "type", "int")>>

SurahFields == <<Field("id", "id", "int"), Field("name", "name", "str"),
                 Field("startPage", "start_page", "int"),
                 Field("endPage", "end_page", "int"),
                 Field("makkia", "makkia", "int"), Field("type", "type", "int")>>

MoshafFields == <<Field("id", "id", "int"), Field("name", "name", "str"),
                  Field("server", "server", "str"),
                  Field("surahsCount", "surah_total", "int"),
                  Field("moshafType", "moshaf_type", "int"),
                  Field("surahIdsStr", "surah_list", "str")>>

ReciterFields == <<Field("id", "id", "int"), Field("name", "name", "str"),
                   Field("letter", "letter", "str"), Field("date", "date", "str"),
                   Field("moshafList", "moshaf", "list[Moshaf]")>>

fields(cls) == CASE cls = "Surah" -> SurahFields
                 [] cls = "Moshaf" -> MoshafFields
                 [] cls = "Reciter" -> ReciterFields

is_dataclass(ty) == ty \in {"Surah", "Moshaf", "Reciter"}

IsListOfDataclass(ty) == ty = "list[Moshaf]"

InnerClass(ty) == "Moshaf"

FieldNames(cls) == {fields(cls)[i].name : i \in 1..Len(fields(cls))}

(***************************************************************************)
(* toDataClass.  A call either returns a record, [cls, kw], or raises; a    *)
(* list field holds the sequence of its mapped elements.                    *)
(***************************************************************************)
Raise(e) == [raised |-> TRUE, error |-> e]
Return(x) == [raised |-> FALSE, value |-> x]

\* `for item in fieldValue`: what iterating a wire value yields
Iterable(x) == x.t \in {"list", "str", "dict"}

RECURSIVE SetToSeq(_)
SetToSeq(S) == IF S = {} THEN <<>>
               ELSE LET x == CHOOSE y \in S : TRUE
                    IN  <<x>> \o SetToSeq(S \ {x})

Iterate(x) == CASE x.t = "list" -> x.v
                [] x.t = "str" -> [i \in 1..Len(x.v) |-> StrV(<<x.v[i]>>)]
                [] x.t = "dict" -> [i \in 1..Cardinality(DOMAIN x.v) |->
                                      StrV(<<SetToSeq(DOMAIN x.v)[i]>>)]

\* cls(**initKwargs): a dataclass without defaults requires every field
Construct(cls, initKwargs) ==
    IF DOMAIN initKwargs = FieldNames(cls)
    THEN Return([cls |-> cls, kw |-> initKwargs])
    ELSE Raise("TypeError")

RECURSIVE toDataClass(_, _)
toDataClass(data, cls) ==
    IF data.t # "dict"
    THEN \* `fieldName not in data` or data[fieldName] or cls() fails
         Raise("TypeError")
    ELSE
    LET fs == fields(cls)
        present == {i \in 1..Len(fs) : fs[i].wire \in DOMAIN data.v}
        fieldValue(i) == data.v[fs[i].wire]
        element(i, k) == toDataClass(Iterate(fieldValue(i))[k], InnerClass(fs[i].type))
        conv(i) ==
            IF is_dataclass(fs[i].type)
            THEN toDataClass(fieldValue(i), fs[i].type)
            ELSE IF IsListOfDataclass(fs[i].type)
            THEN IF ~Iterable(fieldValue(i))
                 THEN Raise("TypeError")
                 ELSE LET n == Len(Iterate(fieldValue(i)))
                      IN  IF \E k \in 1..n : element(i, k).raised
                          THEN Raise("TypeError")
                          ELSE Return(ListV([k \in 1..n |-> element(i, k).value]))
            ELSE Return(fieldValue(i))
    IN  IF \E i \in present : conv(i).raised
        THEN Raise("TypeError")
        ELSE Construct(cls, [n \in {fs[i].name : i \in present} |->
                              conv(CHOOSE i \in present : fs[i].name = n).value])

(***************************************************************************)
(* Text.  A text is the sequence of its characters; the literals of the     *)
(* __toString__ methods and of main are spelled out character by character. *)
(***************************************************************************)
EDITOR_INDENT_SIZE == 4
EDITOR_INDENT == [i \in 1..EDITOR_INDENT_SIZE |-> " "]

\* EDITOR_INDENT * n
RECURSIVE Times(_, _)
Times(text, n) == IF n <= 0 THEN <<>> ELSE text \o Times(text, n - 1)

\* f"{EDITOR_INDENT * n if withIndent else ''}"
Indent(n, withIndent) == IF withIndent THEN Times(EDITOR_INDENT, n) ELSE <<>>

Digit(d) == CASE d = 0 -> "0" [] d = 1 -> "1" [] d = 2 -> "2" [] d = 3 -> "3"
              [] d = 4 -> "4" [] d = 5 -> "5" [] d = 6 -> "6" [] d = 7 -> "7"
              [] d = 8 -> "8" [] d = 9 -> "9"

\* str(n) of a non-negative integer
RECURSIVE Decimal(_)
Decimal(n) == IF n < 10 THEN <<Digit(n)>>
              ELSE Decimal(n \div 10) \o <<Digit(n % 10)>>

\* f"{value}": an integer in decimal, a text as it is
Format(x) == CASE x.t = "int" -> (IF x.v < 0 THEN <<"-">> \o Decimal(0 - x.v)
                                  ELSE Decimal(x.v))
               [] x.t = "str" -> x.v

\* a join that ends with a separator
JoinTrailing(sep, parts) ==
    LET acc[k \in 0..Len(parts)] ==
            IF k = 0 THEN <<>>
            ELSE IF k = 1 THEN parts[1]
            ELSE acc[k - 1] \o sep \o parts[k]
    IN  acc[Len(parts)] \o sep

\* sep.join(parts)
RECURSIVE Join(_, _)
Join(sep, parts) ==
    IF parts = <<>> THEN <<>>
    ELSE IF Len(parts) = 1 THEN parts[1]
    ELSE parts[1] \o sep \o Join(sep, Tail(parts))

T_id == <<"i", "d", " ", "=", " ">>
T_name == <<"n", "a", "m", "e", " ", "=", " ", "\"">>
T_CommaSp == <<",", " ">>
T_QuoteCommaSp == <<"\"", ",", " ">>
T_Close == <<")">>
T_CommaNl == <<",", "\n">>
T_QuoteCommaNl == <<"\"", ",", "\n">>
T_Nl == <<"\n">>
T_CloseNl == <<")", "\n">>
T_CommaNlNl == <<",", "\n", "\n">>

\* Surah.__toString__
SurahToString(r) ==
    <<"S", "u", "r", "a", "h", "(">>
    \o T_id \o Format(r.kw.id) \o T_CommaSp
    \o T_name \o Format(r.kw.name) \o T_QuoteCommaSp
    \o <<"s", "t", "a", "r", "t", "P", "a", "g", "e", " ", "=", " ">>
    \o Format(r.kw.startPage) \o T_CommaSp
    \o <<"e", "n", "d", "P", "a", "g", "e", " ", "=", " ">> \o Format(r.kw.endPage)
    \o T_CommaSp
    \o <<"m", "a", "k", "k", "i", "a", " ", "=", " ">> \o Format(r.kw.makkia)
    \o T_CommaSp
    \o <<"t", "y", "p", "e", " ", "=", " ">> \o Format(r.kw.type)
    \o T_Close

\* Moshaf.__toString__
MoshafToString(r, withIndent) ==
    <<"M", "o", "s", "h", "a", "f", "(", "\n">>
    \o Indent(8, withIndent) \o T_id \o Format(r.kw.id) \o T_CommaNl
    \o Indent(8, withIndent) \o T_name \o Format(r.kw.name) \o T_QuoteCommaNl
    \o Indent(8, withIndent) \o <<"s", "e", "r", "v", "e", "r", " ", "=", " ", "\"">>
    \o Format(r.kw.server) \o T_QuoteCommaNl
    \o Indent(8, withIndent)
    \o <<"s", "u", "r", "a", "h", "s", "C", "o", "u", "n", "t", " ", "=", " ">>
    \o Format(r.kw.surahsCount) \o T_CommaNl
    \o Indent(8, withIndent)
    \o <<"m", "o", "s", "h", "a", "f", "T", "y", "p", "e", " ", "=", " ">>
    \o Format(r.kw.moshafType) \o T_CommaNl
    \o Indent(8, withIndent)
    \o <<"s", "u", "r", "a", "h", "I", "d", "s", "S", "t", "r", " ", "=", " ", "\"">>
    \o Format(r.kw.surahIdsStr) \o <<"\"", "\n">>
    \o Indent(6, withIndent) \o T_Close

\* Reciter.__toString__; str(moshaf) is with indentation, repr(moshaf) without
ReciterToString(r, withIndent) ==
    LET list == r.kw.moshafList.v
        moshafList == Join(T_CommaNl \o Indent(6, withIndent),
                           [i \in 1..Len(list) |-> MoshafToString(list[i], withIndent)])
    IN  Indent(2, withIndent) \o <<"R", "e", "c", "i", "t", "e", "r", "(", "\n">>
        \o Indent(4, withIndent) \o T_id \o Format(r.kw.id)
        \o <<".", "a", "s", "R", "e", "c", "i", "t", "e", "r", "I", "d", ",", "\n">>
        \o Indent(4, withIndent) \o T_name \o Format(r.kw.name) \o T_QuoteCommaNl
        \o Indent(4, withIndent)
        \o <<"l", "e", "t", "t", "e", "r", " ", "=", " ", "\"">> \o Format(r.kw.letter)
        \o T_QuoteCommaNl
        \o Indent(4, withIndent) \o <<"d", "a", "t", "e", " ", "=", " ", "\"">>
        \o Format(r.kw.date) \o T_QuoteCommaNl
        \o Indent(4, withIndent)
        \o <<"m", "o", "s", "h", "a", "f", "L", "i", "s", "t", " ", "=", " ",
              "l", "i", "s", "t", "O", "f", "(", "\n">>
        \o Indent(6, withIndent) \o moshafList \o T_Nl
        \o Indent(4, withIndent) \o T_CloseNl
        \o Indent(2, withIndent) \o T_Close

\* str(record)
Str(r) == CASE r.cls = "Surah" -> SurahToString(r)
            [] r.cls = "Moshaf" -> MoshafToString(r, TRUE)
            [] r.cls = "Reciter" -> ReciterToString(r, TRUE)

\* the reciters joined without the blank line
KotlinRecitersTight(list) == Join(T_CommaNl, [i \in 1..Len(list) |-> Str(list[i])])

\* main: ",\n\n".join(str(reciter) for reciter in reciters)
KotlinReciters(list) == Join(T_CommaNlNl, [i \in 1..Len(list) |-> Str(list[i])])

\* main: kotlinRecitersList
KotlinRecitersList(list) ==
    <<"v", "a", "l", " ", "s", "a", "m", "p", "l", "e", "R", "e", "c", "i", "t", "e",
      "r", "s", " ", "=", " ", "l", "i", "s", "t", "O", "f", "(", "\n">>
    \o KotlinReciters(list) \o <<"\n", ")", "\n">>

\* main: f",\n{EDITOR_INDENT * 2}".join(str(surah) for surah in surahs)
KotlinSurahs(list) ==
    Join(T_CommaNl \o Indent(2, TRUE), [i \in 1..Len(list) |-> Str(list[i])])

\* main: kotlinSurahsList
KotlinSurahsList(list) ==
    <<"v", "a", "l", " ", "s", "a", "m", "p", "l", "e", "S", "u", "r", "a", "h", "s",
      " ", "=", " ", "l", "i", "s", "t", "O", "f", "(", "\n">>
    \o Indent(2, TRUE) \o KotlinSurahs(list) \o <<"\n", ")", "\n">>

(***************************************************************************)
(* sendRequest: Retry(total=3, backoff_factor=0.125) mounted on a session.  *)
(* The retry object decides, as urllib3's Retry does: a connection-level    *)
(* failure of a GET is retried while retries are left; no status code is    *)
(* forced (status_forcelist is not given), so an HTTP answer is retried     *)
(* only when it carries a Retry-After header and its status is one of those *)
(* that header is respected for.                                            *)
(***************************************************************************)
RetryTotal == 3
\* backoff_factor = 0.125 s, in units of 125 ms
BackoffFactor == 1

Resources == {"reciters", "suwar"}

\* what one GET attempt can meet below the HTTP level
ConnectionFailures == {"connection_error", "connect_timeout"}

\* what an attempt met: a connection-level failure, or an HTTP answer with
\* its status and its Retry-After header (0: none)
Failure(f) == [kind |-> f, status |-> 0, retryAfter |-> 0]
Answer(st, ra) == [kind |-> "answer", status |-> st, retryAfter |-> ra]

Answers == {Answer(200, 0), Answer(404, 0), Answer(500, 0),
            Answer(503, RetryAfterUnits)}

RetryAfterStatusCodes == {413, 429, 503}

Lists(S) == UNION {[1..n -> S] : n \in 0..MaxItems}

Wires(res) == IF res = "reciters" THEN ReciterWires ELSE SurahWires

NotJson == [json |-> FALSE]
JsonBody(d) == [json |-> TRUE, data |-> d]

\* the bodies a server may send: no JSON, JSON without the expected key, or
\* JSON holding an array of wire objects under it
Bodies(res) ==
    {NotJson, JsonBody([message |-> StrV(<<"e", "r", "r">>)])}
    \cup {JsonBody([k \in {res} |-> ListV(items)]) : items \in Lists(Wires(res))}

Pending == [kind |-> "pending"]
None == [kind |-> "None"]
Response(status, body) == [kind |-> "Response", status |-> status, body |-> body]

\* Retry.get_backoff_time, for a history of n failed attempts: nothing before
\* the first retry, then backoff_factor * 2^(n - 1)
get_backoff_time(n) == IF n <= 1 THEN 0 ELSE BackoffFactor * 2^(n - 1)

\* Retry.is_retry for a GET, with no status_forcelist
is_retry(left, status, retryAfter) ==
    left # 0 /\ retryAfter # 0 /\ status \in RetryAfterStatusCodes

\* a retry budget that gives up one attempt early
is_exhausted_early(left) == left <= 0

\* Retry.is_exhausted after Retry.increment
is_exhausted(left) == left < 0

\* the requests exception session.get raises once the retries are exhausted
ExhaustedError(failure) ==
    IF failure = "connect_timeout" THEN "ConnectTimeout" ELSE "ConnectionError"

\* an except clause that names the timeouts only
IsTimeout(ex) == ex \in {"ConnectTimeout", "ReadTimeout"}

\* isinstance(ex, RequestException)
IsRequestException(ex) ==
    ex \in {"ConnectionError", "ConnectTimeout", "ReadTimeout", "RetryError"}

ResourceAt(p) == IF p \in {"reciters_request", "reciters_response", "reciters_check"}
                 THEN "reciters" ELSE "suwar"

ResponsePc(res) == IF res = "reciters" THEN "reciters_response" ELSE "surahs_response"

UncaughtExit == 1
RecitersExit == 1
\* the surah branch exiting with the reciter branch's status
SurahsExitAsReciters == RecitersExit
SurahsExit == 2

\* an exception nobody catches: the interpreter prints the traceback and
\* exits with status 1
Uncaught(ex) ==
    /\ stderr' = Append(stderr, <<"Traceback", ex>>)
    /\ exitCode' = <<UncaughtExit>>
    /\ pc' = "exit"

\* the end of sendRequest: `return response`, or the except clause
SendRequestReturns(res, r) ==
    /\ response' = r
    /\ fetched' = fetched \cup {res}
    /\ pc' = ResponsePc(res)
    /\ UNCHANGED <<stderr, exitCode>>

SendRequestFails(res, ex) ==
    IF IsRequestException(ex)
    THEN /\ stderr' = Append(stderr, <<"ERROR", ex>>)
         /\ response' = None
         /\ fetched' = fetched \cup {res}
         /\ pc' = ResponsePc(res)
         /\ UNCHANGED exitCode
    ELSE /\ Uncaught(ex)
         /\ UNCHANGED <<response, fetched>>

\* main up to the first GET: the session of getReciters is set up
StartReciters ==
    /\ pc = "main"
    /\ pc' = "reciters_request"
    /\ total' = RetryTotal
    /\ outcomes' = <<>>
    /\ sleeps' = <<>>
    /\ response' = Pending
    /\ UNCHANGED <<stderr, reciters, surahs, fetched, mapped, kotlin, file, exitCode>>

\* one GET attempt of session.get ends in a connection-level failure
AttemptFails ==
    /\ pc \in {"reciters_request", "surahs_request"}
    /\ \E failure \in ConnectionFailures :
        /\ outcomes' = Append(outcomes, Failure(failure))
        /\ total' = total - 1
        /\ IF is_exhausted(total - 1)
           THEN /\ SendRequestFails(ResourceAt(pc), ExhaustedError(failure))
                /\ UNCHANGED sleeps
           ELSE /\ sleeps' = Append(sleeps, get_backoff_time(Len(outcomes) + 1))
                /\ UNCHANGED <<pc, response, stderr, fetched, exitCode>>
    /\ UNCHANGED <<reciters, surahs, mapped, kotlin, file>>

\* one GET attempt of session.get is answered by the server
AttemptAnswered ==
    /\ pc \in {"reciters_request", "surahs_request"}
    /\ \E answer \in Answers, body \in Bodies(ResourceAt(pc)) :
        /\ outcomes' = Append(outcomes, answer)
        /\ IF is_retry(total, answer.status, answer.retryAfter)
           THEN /\ total' = total - 1
                /\ IF is_exhausted(total - 1)
                   THEN /\ SendRequestFails(ResourceAt(pc), "RetryError")
                        /\ UNCHANGED sleeps
                   ELSE /\ sleeps' = Append(sleeps, answer.retryAfter)
                        /\ UNCHANGED <<pc, response, stderr, fetched, exitCode>>
           ELSE /\ SendRequestReturns(ResourceAt(pc), Response(answer.status, body))
                /\ UNCHANGED <<total, sleeps>>
    /\ UNCHANGED <<reciters, surahs, mapped, kotlin, file>>

(***************************************************************************)
(* getReciters / getSurahs after sendRequest has returned, and main.        *)
(***************************************************************************)
Unset == [kind |-> "unset"]
NoneValue == [kind |-> "None"]
ListOf(items) == [kind |-> "list", items |-> items]

\* `is not None` in the place of the truth value
IsNotNone(x) == x.kind = "list"

\* Python's truth value of what a getter returned
Truthy(x) == x.kind = "list" /\ x.items # <<>>

ClassOf(res) == IF res = "reciters" THEN "Reciter" ELSE "Surah"

\* [toDataClass(item, cls) for item in data]
MapAll(data, cls) == [i \in 1..Len(data) |-> toDataClass(data[i], cls)]

\* the body of a getter from `if response is None` on: what it returns, or
\* the exception it lets through
Getter(res, r) ==
    IF r = None THEN Return(NoneValue)
    ELSE IF ~r.body.json THEN Raise("JSONDecodeError")
    ELSE IF res \notin DOMAIN r.body.data THEN Raise("KeyError")
    ELSE LET results == MapAll(r.body.data[res].v, ClassOf(res))
         IN  IF \E i \in 1..Len(results) : results[i].raised
             THEN Raise("TypeError")
             ELSE Return(ListOf([i \in 1..Len(results) |-> results[i].value]))

\* whether the getter gets as far as calling toDataClass
CallsToDataClass(res, r) ==
    /\ r # None
    /\ r.body.json
    /\ res \in DOMAIN r.body.data
    /\ r.body.data[res].v # <<>>

\* the getter returns or raises: its locals and those of sendRequest are gone
RequestOver ==
    /\ total' = 0
    /\ outcomes' = <<>>
    /\ sleeps' = <<>>
    /\ response' = Pending

getReciters ==
    /\ pc = "reciters_response"
    /\ mapped' = IF CallsToDataClass("reciters", response)
                 THEN mapped \cup {"reciters"} ELSE mapped
    /\ LET got == Getter("reciters", response)
       IN  IF got.raised
           THEN /\ Uncaught(got.error)
                /\ UNCHANGED reciters
           ELSE /\ reciters' = got.value
                /\ pc' = "reciters_check"
                /\ UNCHANGED <<stderr, exitCode>>
    /\ RequestOver
    /\ UNCHANGED <<surahs, fetched, kotlin, file>>

\* the reciter branch without its exit(1): the run goes on to the surahs
CheckRecitersNoExit ==
    /\ pc = "reciters_check"
    /\ pc' = "surahs_request"
    /\ total' = RetryTotal
    /\ stderr' = IF Truthy(reciters) THEN stderr
                 ELSE Append(stderr, <<"FAILED", "Reciters">>)
    /\ UNCHANGED <<outcomes, sleeps, response, exitCode>>
    /\ UNCHANGED <<reciters, surahs, fetched, mapped, kotlin, file>>

\* main: `if reciters: ... else: ... exit(1)`, then the session of getSurahs
CheckReciters ==
    /\ pc = "reciters_check"
    /\ IF Truthy(reciters)
       THEN /\ pc' = "surahs_request"
            /\ total' = RetryTotal
            /\ UNCHANGED <<stderr, exitCode>>
       ELSE /\ stderr' = Append(stderr, <<"FAILED", "Reciters">>)
            /\ exitCode' = <<RecitersExit>>
            /\ pc' = "exit"
            /\ UNCHANGED total
    /\ UNCHANGED <<outcomes, sleeps, response>>
    /\ UNCHANGED <<reciters, surahs, fetched, mapped, kotlin, file>>

getSurahs ==
    /\ pc = "surahs_response"
    /\ mapped' = IF CallsToDataClass("suwar", response)
                 THEN mapped \cup {"suwar"} ELSE mapped
    /\ LET got == Getter("suwar", response)
       IN  IF got.raised
           THEN /\ Uncaught(got.error)
                /\ UNCHANGED surahs
           ELSE /\ surahs' = got.value
                /\ pc' = "surahs_check"
                /\ UNCHANGED <<stderr, exitCode>>
    /\ RequestOver
    /\ UNCHANGED <<reciters, fetched, kotlin, file>>

\* the surah branch testing `surahs is not None` in the place of `surahs`
CheckSurahsNotNone ==
    /\ pc = "surahs_check"
    /\ IF IsNotNone(surahs)
       THEN /\ pc' = "serialize"
            /\ UNCHANGED <<stderr, exitCode>>
       ELSE /\ stderr' = Append(stderr, <<"FAILED", "Surahs">>)
            /\ exitCode' = <<SurahsExit>>
            /\ pc' = "exit"
    /\ UNCHANGED <<total, outcomes, sleeps, response, reciters, surahs, fetched,
                   mapped, kotlin, file>>

\* main: `if surahs: ... else: ... exit(2)`
CheckSurahs ==
    /\ pc = "surahs_check"
    /\ IF Truthy(surahs)
       THEN /\ pc' = "serialize"
            /\ UNCHANGED <<stderr, exitCode>>
       ELSE /\ stderr' = Append(stderr, <<"FAILED", "Surahs">>)
            /\ exitCode' = <<SurahsExit>>
            /\ pc' = "exit"
    /\ UNCHANGED <<total, outcomes, sleeps, response, reciters, surahs, fetched,
                   mapped, kotlin, file>>

\* main: the two collections are rendered (str of every record, joined)
Serialize ==
    /\ pc = "serialize"
    /\ kotlin' = [kind |-> "built", reciters |-> KotlinRecitersList(reciters.items),
                  surahs |-> KotlinSurahsList(surahs.items)]
    /\ pc' = "write"
    /\ UNCHANGED <<total, outcomes, sleeps, response, stderr, reciters, surahs,
                   fetched, mapped, file, exitCode>>

Absent == [state |-> "absent"]
OldFile == [state |-> "old"]
Truncated == [state |-> "partial"]
Written(k) == [state |-> "written", reciters |-> k.reciters, surahs |-> k.surahs]

\* main: `with open(outputPath, "w") ... file.write(...)`, and the end of main
WriteFile ==
    /\ pc = "write"
    /\ \E io \in {"ok", "open_fails", "write_fails"} :
        CASE io = "ok" ->
                /\ file' = Written(kotlin)
                /\ exitCode' = <<0>>
                /\ pc' = "exit"
                /\ UNCHANGED stderr
          [] io = "open_fails" ->
                /\ Uncaught("OSError")
                /\ UNCHANGED file
          [] io = "write_fails" ->
                /\ Uncaught("OSError")
                /\ file' = Truncated
    /\ UNCHANGED <<total, outcomes, sleeps, response, reciters, surahs, fetched,
                   mapped, kotlin>>

(***************************************************************************)
(* The mapper and the serializer on their own: one payload is drawn, mapped *)
(* by toDataClass as the getters do, and its records are rendered and       *)
(* joined as main does.                                                     *)
(***************************************************************************)
Alphabet == {"a", "\"", "\\"}
Strings == UNION {[1..n -> Alphabet] : n \in 0..MaxStrLen}

\* a chapter, a recitation and a reciter whose text fields hold `s`
SurahWith(n, s) == DictV([id |-> IntV(n), name |-> StrV(s), start_page |-> IntV(n),
                    end_page |-> IntV(n + 10), makkia |-> IntV(1), type |-> IntV(0)])

MoshafWith(n, s) == DictV([id |-> IntV(n), name |-> StrV(s), server |-> StrV(s),
                     surah_total |-> IntV(114), moshaf_type |-> IntV(11),
                     surah_list |-> StrV(s)])

ReciterWith(n, s) == DictV([id |-> IntV(n), name |-> StrV(s), letter |-> StrV(s),
                      date |-> StrV(s),
                      moshaf |-> ListV(<<MoshafWith(10 * n + 1, s),
                                         MoshafWith(10 * n + 2, <<"a">> \o s)>>)])

\* text where the schema declares an integer
SurahWireTextId == DictV([SurahWire.v EXCEPT !.id = StrV(<<"1">>)])

\* an integer where the schema declares text
SurahWireIntName == DictV([SurahWire.v EXCEPT !.name = IntV(7)])

\* a scalar where the schema declares a list of records
ReciterWireIntMoshaf == DictV([ReciterWire.v EXCEPT !.moshaf = IntV(0)])
ReciterWireTextMoshaf == DictV([ReciterWire.v EXCEPT !.moshaf = StrV(<<"a">>)])
ReciterWireEmptyTextMoshaf == DictV([ReciterWire.v EXCEPT !.moshaf = StrV(<<>>)])

\* a recitation whose id is text, inside a reciter
ReciterWireTextNestedId ==
    DictV([ReciterWire.v EXCEPT !.moshaf =
              ListV(<<DictV([MoshafWire.v EXCEPT !.id = StrV(<<"1">>)])>>)])

\* a JSON object as the server writes it: its members in some order
Encode(wire, order) ==
    [i \in 1..Len(order) |-> [key |-> order[i], value |-> wire.v[order[i]]]]

\* response.json(): a dict is looked up by key, the last of equal keys wins
Decode(object) ==
    LET keys == {object[i].key : i \in 1..Len(object)}
        last(k) == CHOOSE i \in 1..Len(object) :
                      /\ object[i].key = k
                      /\ \A j \in 1..Len(object) : object[j].key = k => j <= i
    IN  DictV([k \in keys |-> object[last(k)].value])

KeyOrders(wire) ==
    LET keys == DOMAIN wire.v
        n == Cardinality(keys)
    IN  {o \in [1..n -> keys] : \A i, j \in 1..n : o[i] = o[j] => i = j}

InOrder(wire) == Encode(wire, SetToSeq(DOMAIN wire.v))

SurahIds == {1, 114}

SurahPayloads ==
    {<<InOrder(SurahWith(n, s))>> : n \in SurahIds, s \in Strings}
    \cup {<<Encode(SurahWire, o)>> : o \in KeyOrders(SurahWire)}
    \cup {<<InOrder(w)>> : w \in SurahWires \cup {SurahWireTextId, SurahWireIntName}}
    \cup {<<InOrder(SurahWire), InOrder(SurahWireExtra)>>}

ReciterPayloads ==
    {<<InOrder(ReciterWith(1, s1)), InOrder(ReciterWith(2, s2))>> :
        s1 \in Strings, s2 \in Strings}
    \cup {<<InOrder(w)>> : w \in ReciterWires
                               \cup {ReciterWireIntMoshaf, ReciterWireTextMoshaf,
                                     ReciterWireEmptyTextMoshaf,
                                     ReciterWireTextNestedId}}
    \cup {<<>>}

Payloads == {[res |-> "suwar", objects |-> o] : o \in SurahPayloads}
            \cup {[res |-> "reciters", objects |-> o] : o \in ReciterPayloads}

NoPayload == [res |-> "none", objects |-> <<>>]
Raised(e) == [kind |-> "raised", error |-> e]
NoText == <<"none">>
Text(t) == <<"text", t>>

SerIdle ==
    /\ stage = "idle"
    /\ payload = NoPayload
    /\ records = Unset
    /\ rendered = NoText

\* getReciters / getSurahs: [toDataClass(item, cls) for item in data]
Map ==
    /\ stage = "input"
    /\ LET data == [i \in 1..Len(payload.objects) |-> Decode(payload.objects[i])]
           results == MapAll(data, ClassOf(payload.res))
       IN  IF \E i \in 1..Len(results) : results[i].raised
           THEN /\ records' = Raised("TypeError")
                /\ stage' = "failed"
           ELSE /\ records' = ListOf([i \in 1..Len(results) |-> results[i].value])
                /\ stage' = "mapped"
    /\ UNCHANGED <<payload, rendered>>

\* main: the join of str(record) over the records of one collection
Render ==
    /\ stage = "mapped"
    /\ rendered' = Text(IF payload.res = "reciters"
                        THEN KotlinReciters(records.items)
                        ELSE KotlinSurahs(records.items))
    /\ stage' = "rendered"
    /\ UNCHANGED <<payload, records>>

(***************************************************************************)
(* helper_scripts/generateSampleData.py, the older generator: ktString and  *)
(* surahToKotlin, which renders a chapter from its dict.                    *)
(***************************************************************************)
\* text.replace(old, new) for a one-character `old`
RECURSIVE Replace(_, _, _)
Replace(text, old, new) ==
    IF text = <<>> THEN <<>>
    ELSE (IF Head(text) = old THEN new ELSE <<Head(text)>>)
         \o Replace(Tail(text), old, new)

ktString(value) ==
    IF value.t # "str" THEN value
    ELSE StrV(Replace(value.v, "\"", <<"\\", "\"">>))

\* surahToKotlin, with `name` for what ktString(surah["name"]) returned
SurahLine(s, name) ==
    <<"S", "u", "r", "a", "h", "(">>
    \o T_id \o Format(s.id) \o T_CommaSp
    \o T_name \o Format(name) \o T_QuoteCommaSp
    \o <<"s", "t", "a", "r", "t", "P", "a", "g", "e", " ", "=", " ">>
    \o Format(s.start_page) \o T_CommaSp
    \o <<"e", "n", "d", "P", "a", "g", "e", " ", "=", " ">> \o Format(s.end_page)
    \o T_CommaSp
    \o <<"m", "a", "k", "k", "i", "a", " ", "=", " ">> \o Format(s.makkia) \o T_CommaSp
    \o <<"t", "y", "p", "e", " ", "=", " ">> \o Format(s.type)
    \o T_Close

Names == UNION {[1..n -> Alphabet] : n \in 0..MaxNameLen}
Surahs == {SurahWith(1, s).v : s \in Names} \cup {SurahWireIntName.v}

NoSurah == [id |-> IntV(0)]
NotCalled == [t |-> "none"]

KtIdle ==
    /\ surah = NoSurah
    /\ escaped = NotCalled
    /\ line = NoText

\* surahToKotlin: the call ktString(surah["name"]) inside the f-string
KtString ==
    /\ surah # NoSurah
    /\ escaped = NotCalled
    /\ escaped' = ktString(surah.name)
    /\ UNCHANGED <<surah, line>>

\* surahToKotlin: the literals and the values are concatenated and returned
SurahToKotlin ==
    /\ escaped # NotCalled
    /\ line = NoText
    /\ line' = Text(SurahLine(surah, escaped))
    /\ UNCHANGED <<surah, escaped>>

(***************************************************************************)
(* helper-scripts/generateSurahDrawables.py, the sketch.  Headless, setup   *)
(* saves every frame in a loop; otherwise setup starts the getSurahs thread *)
(* and py5 calls draw again and again.  The thread and draw share `loading` *)
(* and `previousTimestamp` without any lock: each of their steps holds one  *)
(* access to a shared variable.  The clock is read at the granularity of    *)
(* one phase of the animation.                                              *)
(***************************************************************************)
\* the global list `surahs`, indexed from 0, entry 0 being the placeholder
sketchSurahs == [i \in 0..(NumSurahs - 1) |-> <<"n">> \o Decimal(i)]

onScreenDuration == 500
fadeInDuration == 500
fadeOutDuration == 500
cycleDuration == onScreenDuration + fadeInDuration + fadeOutDuration

\* sleep(3), in milliseconds
SleepMillis == 3000

\* the step of the clock between two readings that differ
Tick == fadeInDuration

T_name_png == <<"s", "u", "r", "a", "h", "_", "n", "a", "m", "e", ".", "p", "n", "g">>
T_blurred_png == <<"s", "u", "r", "a", "h", "_", "n", "a", "m", "e", "_", "b", "l", "u",
    "r", "r", "e", "d", ".", "p", "n", "g">>

\* f"{n:03d}"
Pad3(n) == IF n < 10 THEN <<"0", "0">> \o Decimal(n)
           ELSE IF n < 100 THEN <<"0">> \o Decimal(n)
           ELSE Decimal(n)

\* f"surah_{surahIndex:03d}.png"
NumberedFile(n) == <<"s", "u", "r", "a", "h", "_">> \o Pad3(n) \o <<".", "p", "n", "g">>

\* saveFrame: what is drawn depends on the name, on blur and on the value
\* `global` of surahIndex at the call (theme, layout, font); the file is then
\* written
saveFrame(surahName, filename, blur, global) ==
    [file |-> filename, name |-> surahName, surahIndex |-> global, blur |-> blur]

\* the comparison that ends the loop one callback late
AtEndLate(i) == i > NumSurahs

\* `surahIndex >= len(surahs)`
AtEnd(i) == i >= NumSurahs

SketchIdle ==
    /\ isHeadless = FALSE
    /\ now = 0
    /\ loading = TRUE
    /\ surahIndex = 0
    /\ previousTimestamp = 0
    /\ looping = FALSE
    /\ loader = "none"
    /\ wakeAt = 0
    /\ drawPc = "none"
    /\ currentTimestamp = 0
    /\ elapsedTime = 0
    /\ loaded = 0
    /\ phase = "none"
    /\ index = 0
    /\ exited = FALSE
    /\ saved = <<>>

\* time passes
Clock ==
    /\ now + Tick <= MaxMillis
    /\ ~exited
    /\ now' = now + Tick
    /\ UNCHANGED <<wakeAt, isHeadless, loading, surahIndex, previousTimestamp, looping,
                   loader, drawPc, currentTimestamp, elapsedTime, loaded, phase,
                   index, exited, saved>>

\* setup, headless: the blurred placeholder, saved before the loop
SetupBlurred ==
    /\ isHeadless
    /\ drawPc = "setup"
    /\ saved' = Append(saved, saveFrame(sketchSurahs[0], T_blurred_png, TRUE, surahIndex))
    /\ drawPc' = "loop"
    /\ index' = 0
    /\ UNCHANGED <<wakeAt, isHeadless, now, loading, surahIndex, previousTimestamp, looping,
                   loader, currentTimestamp, elapsedTime, loaded, phase, exited>>

\* the loop of setup saving the frame before it updates surahIndex
SetupLoopStale ==
    /\ drawPc = "loop"
    /\ index < NumSurahs
    /\ saved' = Append(saved,
                  saveFrame(sketchSurahs[index],
                            IF index # 0 THEN NumberedFile(index) ELSE T_name_png,
                            FALSE, surahIndex))
    /\ surahIndex' = index
    /\ index' = index + 1
    /\ UNCHANGED <<wakeAt, isHeadless, now, loading, previousTimestamp, looping, loader,
                   drawPc, currentTimestamp, elapsedTime, loaded, phase, exited>>

\* setup, headless: one turn of `for index in range(len(surahs))`
SetupLoop ==
    /\ drawPc = "loop"
    /\ index < NumSurahs
    /\ surahIndex' = index
    /\ saved' = Append(saved,
                  saveFrame(sketchSurahs[surahIndex'],
                            IF surahIndex' # 0 THEN NumberedFile(surahIndex')
                            ELSE T_name_png,
                            FALSE, surahIndex'))
    /\ index' = index + 1
    /\ UNCHANGED <<wakeAt, isHeadless, now, loading, previousTimestamp, looping, loader,
                   drawPc, currentTimestamp, elapsedTime, loaded, phase, exited>>

\* setup, headless: py5.exit_sketch() after the loop
SetupExit ==
    /\ drawPc = "loop"
    /\ index = NumSurahs
    /\ drawPc' = "none"
    /\ exited' = TRUE
    /\ UNCHANGED <<wakeAt, isHeadless, now, loading, surahIndex, previousTimestamp, looping,
                   loader, currentTimestamp, elapsedTime, loaded, phase, index, saved>>

\* setup, interactive: the thread is started and py5 begins to call draw
SetupThread ==
    /\ ~isHeadless
    /\ drawPc = "setup"
    /\ loader' = "sleep"
    /\ wakeAt' = now + SleepMillis
    /\ drawPc' = "idle"
    /\ looping' = TRUE
    /\ UNCHANGED <<isHeadless, now, loading, surahIndex, previousTimestamp,
                   currentTimestamp, elapsedTime, loaded, phase, index, exited, saved>>

\* getSurahs: sleep(3) is over, `loading = False`
LoaderSetLoading ==
    /\ loader = "sleep"
    /\ now >= wakeAt
    /\ loading' = FALSE
    /\ loader' = "reset"
    /\ UNCHANGED <<wakeAt, isHeadless, now, surahIndex, previousTimestamp, looping, drawPc,
                   currentTimestamp, elapsedTime, loaded, phase, index, exited, saved>>

\* getSurahs: `previousTimestamp = py5.millis()`
LoaderSetTimestamp ==
    /\ loader = "reset"
    /\ previousTimestamp' = now
    /\ loader' = "done"
    /\ UNCHANGED <<wakeAt, isHeadless, now, loading, surahIndex, looping, drawPc,
                   currentTimestamp, elapsedTime, loaded, phase, index, exited, saved>>

\* draw: `if loading: loadingIndicator(); return`
DrawLoading ==
    /\ drawPc = "idle"
    /\ looping
    /\ IF loading
       THEN /\ phase' = "loading"
            /\ UNCHANGED drawPc
       ELSE /\ drawPc' = "millis"
            /\ UNCHANGED phase
    /\ UNCHANGED <<wakeAt, isHeadless, now, loading, surahIndex, previousTimestamp, looping,
                   loader, currentTimestamp, elapsedTime, loaded, index, exited, saved>>

\* draw: `currentTimestamp = py5.millis()`
DrawMillis ==
    /\ drawPc = "millis"
    /\ currentTimestamp' = now
    /\ drawPc' = "elapsed"
    /\ UNCHANGED <<wakeAt, isHeadless, now, loading, surahIndex, previousTimestamp, looping,
                   loader, elapsedTime, loaded, phase, index, exited, saved>>

\* the branch of draw an elapsed time selects
PhaseOf(e) ==
    IF e < fadeInDuration THEN "fade_in"
    ELSE IF e < fadeInDuration + onScreenDuration THEN "on_screen"
    ELSE IF e < cycleDuration THEN "fade_out"
    ELSE "advance"

\* draw: `elapsedTime = currentTimestamp - previousTimestamp`, the read of
\* surahs[surahIndex], and the three phases that draw on the screen and return
DrawElapsed ==
    /\ drawPc = "elapsed"
    /\ IF surahIndex >= NumSurahs
       THEN \* IndexError
            /\ drawPc' = "crashed"
            /\ looping' = FALSE
            /\ UNCHANGED <<elapsedTime, phase, currentTimestamp>>
       ELSE LET e == currentTimestamp - previousTimestamp
            IN  /\ phase' = PhaseOf(e)
                /\ IF PhaseOf(e) = "advance"
                   THEN /\ drawPc' = "advance"
                        /\ elapsedTime' = e
                        /\ UNCHANGED currentTimestamp
                   ELSE /\ drawPc' = "idle"
                        /\ elapsedTime' = 0
                        /\ currentTimestamp' = 0
                /\ UNCHANGED looping
    /\ UNCHANGED <<wakeAt, isHeadless, now, loading, surahIndex, previousTimestamp, loader,
                   loaded, index, exited, saved>>

\* draw, phase 4: the frames of the cycle that ended are saved, and
\* `previousTimestamp += cycleDuration` reads previousTimestamp
DrawAdvance ==
    /\ drawPc = "advance"
    /\ saved' = IF surahIndex = 0
                THEN saved \o <<saveFrame(sketchSurahs[surahIndex], T_blurred_png, TRUE,
                                          surahIndex),
                                saveFrame(sketchSurahs[surahIndex], T_name_png, FALSE,
                                          surahIndex)>>
                ELSE Append(saved, saveFrame(sketchSurahs[surahIndex],
                                             NumberedFile(surahIndex), FALSE, surahIndex))
    /\ loaded' = previousTimestamp
    /\ drawPc' = "store"
    /\ UNCHANGED <<wakeAt, isHeadless, now, loading, surahIndex, previousTimestamp, looping,
                   loader, currentTimestamp, elapsedTime, phase, index, exited>>

\* draw, phase 4: `previousTimestamp += cycleDuration` writes, `surahIndex += 1`,
\* and the loop is stopped at the end of the list
DrawStore ==
    /\ drawPc = "store"
    /\ previousTimestamp' = loaded + cycleDuration
    /\ surahIndex' = surahIndex + 1
    /\ looping' = ~AtEnd(surahIndex + 1)
    /\ drawPc' = "idle"
    /\ loaded' = 0
    /\ elapsedTime' = 0
    /\ currentTimestamp' = 0
    /\ UNCHANGED <<wakeAt, isHeadless, now, loading, loader, phase, index, exited, saved>>

Init ==
    /\ pc = "main"
    /\ total = 0
    /\ outcomes = <<>>
    /\ sleeps = <<>>
    /\ response = Pending
    /\ stderr = <<>>
    /\ reciters = Unset
    /\ surahs = Unset
    /\ fetched = {}
    /\ mapped = {}
    /\ kotlin = Unset
    /\ file \in {Absent, OldFile}
    /\ exitCode = <<>>
    /\ SerIdle
    /\ KtIdle
    /\ SketchIdle

Next ==
    \/ StartReciters /\ UNCHANGED notMain
    \/ AttemptFails /\ UNCHANGED notMain
    \/ AttemptAnswered /\ UNCHANGED notMain
    \/ getReciters /\ UNCHANGED notMain
    \/ CheckReciters /\ UNCHANGED notMain
    \/ getSurahs /\ UNCHANGED notMain
    \/ CheckSurahs /\ UNCHANGED notMain
    \/ Serialize /\ UNCHANGED notMain
    \/ WriteFile /\ UNCHANGED notMain

Spec == Init /\ [][Next]_vars

MainIdle ==
    /\ pc = "idle"
    /\ total = 0
    /\ outcomes = <<>>
    /\ sleeps = <<>>
    /\ response = Pending
    /\ stderr = <<>>
    /\ reciters = Unset
    /\ surahs = Unset
    /\ fetched = {}
    /\ mapped = {}
    /\ kotlin = Unset
    /\ file = Absent
    /\ exitCode = <<>>

InitSer ==
    /\ MainIdle
    /\ stage = "input"
    /\ payload \in Payloads
    /\ records = Unset
    /\ rendered = NoText
    /\ KtIdle
    /\ SketchIdle

NextSer ==
    \/ Map /\ UNCHANGED notSer
    \/ Render /\ UNCHANGED notSer

SpecSer == InitSer /\ [][NextSer]_vars

InitKt ==
    /\ MainIdle
    /\ SerIdle
    /\ surah \in Surahs
    /\ escaped = NotCalled
    /\ line = NoText
    /\ SketchIdle

NextKt ==
    \/ KtString /\ UNCHANGED notKt
    \/ SurahToKotlin /\ UNCHANGED notKt

SpecKt == InitKt /\ [][NextKt]_vars

\* the sketch when setup is about to choose its mode
InitSketch ==
    /\ MainIdle
    /\ SerIdle
    /\ KtIdle
    /\ isHeadless \in BOOLEAN
    /\ now = 0
    /\ loading = TRUE
    /\ surahIndex = 0
    /\ previousTimestamp = 0
    /\ looping = FALSE
    /\ loader = "none"
    /\ wakeAt = 0
    /\ drawPc = "setup"
    /\ currentTimestamp = 0
    /\ elapsedTime = 0
    /\ loaded = 0
    /\ phase = "none"
    /\ index = 0
    /\ exited = FALSE
    /\ saved = <<>>

NextSketch ==
    \/ Clock /\ UNCHANGED notSketch
    \/ SetupBlurred /\ UNCHANGED notSketch
    \/ SetupLoop /\ UNCHANGED notSketch
    \/ SetupExit /\ UNCHANGED notSketch
    \/ SetupThread /\ UNCHANGED notSketch
    \/ LoaderSetLoading /\ UNCHANGED notSketch
    \/ LoaderSetTimestamp /\ UNCHANGED notSketch
    \/ DrawLoading /\ UNCHANGED notSketch
    \/ DrawMillis /\ UNCHANGED notSketch
    \/ DrawElapsed /\ UNCHANGED notSketch
    \/ DrawAdvance /\ UNCHANGED notSketch
    \/ DrawStore /\ UNCHANGED notSketch

SpecSketch == InitSketch /\ [][NextSketch]_vars

(***************************************************************************)
(* The properties checked.                                                   *)
(***************************************************************************)
RequestPcs == {"reciters_request", "surahs_request"}
ResponsePcs == {"reciters_response", "surahs_response"}

\* every attempt of the request in progress met a connection-level failure
AllAttemptsFailed == \A i \in 1..Len(outcomes) : outcomes[i].kind \in ConnectionFailures

\* the lines sendRequest has written to the error channel
ErrorLines == Cardinality({i \in 1..Len(stderr) : stderr[i][1] = "ERROR"})

\* C1: when every attempt meets a connection-level failure, sendRequest makes
\* exactly 4 attempts (never more: at most 4 in any request; never fewer: it
\* has not returned before the 4th) and then returns None.
C1_ExactlyFourAttempts ==
    /\ Len(outcomes) <= 4
    /\ (pc \in ResponsePcs /\ AllAttemptsFailed)
           => (Len(outcomes) = 4 /\ response = None)
    /\ (pc \in RequestPcs /\ AllAttemptsFailed) => Len(outcomes) < 4

C1_Witness ==
    /\ pc = "reciters_response"
    /\ Len(outcomes) = 4
    /\ AllAttemptsFailed
    /\ response = None

\* C2: the delay slept before retry k (k = 1, 2, 3) after a connection-level
\* failure is 0.25 * 2^(k-1) s, that is 2, 4, 8 units of 125 ms.
C2_BackoffDelays ==
    \A k \in 1..Len(sleeps) :
        outcomes[k].kind \in ConnectionFailures => sleeps[k] = 2 * 2^(k - 1)

\* C3: when the server answers with a non-retriable error status (4xx),
\* sendRequest returns the failure signal None.
C3_ClientErrorReturnsNone ==
    (/\ pc \in ResponsePcs
     /\ outcomes[Len(outcomes)].kind = "answer"
     /\ outcomes[Len(outcomes)].status \in 400..499)
        => response = None

\* C4: a 5xx answer to the first attempt is never the result of sendRequest
\* without a retry having been made.
C4_ServerErrorRetried ==
    (/\ pc \in ResponsePcs
     /\ outcomes[1].kind = "answer"
     /\ outcomes[1].status \in 500..599)
        => Len(outcomes) > 1

\* C5: no exception of session.get passes sendRequest: it returns a response
\* or None, and it has written one diagnostic line exactly when it returned
\* None (none while the request is still in progress).
C5_NeverRaisesOneDiagnostic ==
    /\ \A i \in 1..Len(stderr) :
           stderr[i][1] = "Traceback" =>
               stderr[i][2] \notin {"ConnectionError", "ConnectTimeout",
                                    "ReadTimeout", "RetryError"}
    /\ pc \in ResponsePcs =>
           /\ response.kind \in {"None", "Response"}
           /\ ErrorLines = (IF response = None THEN 1 ELSE 0)
    /\ pc \in RequestPcs => ErrorLines = 0

C5_Witness ==
    /\ pc = "surahs_response"
    /\ response = None
    /\ stderr = <<<<"ERROR", "ConnectTimeout">>>>

\* C6: exit code 0 only when both fetches succeeded and the file was written;
\* a failed reciter fetch (getReciters returned None) ends the run with 1, a
\* failed surah fetch (getSurahs returned None) with 2.
C6_ExitCodes ==
    /\ exitCode = <<0>> =>
           /\ Truthy(reciters)
           /\ Truthy(surahs)
           /\ fetched = Resources
           /\ file.state = "written"
    /\ (pc = "exit" /\ reciters = NoneValue) => exitCode = <<1>>
    /\ (pc = "exit" /\ surahs = NoneValue) => exitCode = <<2>>

C6_Witness ==
    /\ pc = "exit"
    /\ Truthy(reciters)
    /\ surahs = NoneValue
    /\ exitCode = <<2>>

\* C7: once a fetch has ended in failure (its getter returned None) the run
\* halts there: no further fetch, no serialization, and the output file is
\* as it was before the run.
C7_HaltOnFetchFailure ==
    /\ reciters = NoneValue =>
           /\ pc \in {"reciters_check", "exit"}
           /\ fetched = {"reciters"}
           /\ surahs = Unset
    /\ surahs = NoneValue => pc \in {"surahs_check", "exit"}
    /\ (reciters = NoneValue \/ surahs = NoneValue) =>
           /\ kotlin = Unset
           /\ file \in {Absent, OldFile}

C7_Witness ==
    /\ pc = "exit"
    /\ surahs = NoneValue
    /\ file = OldFile
    /\ kotlin = Unset

\* the fatal condition a finished run ended in, from its last diagnostic
LastLine == stderr[Len(stderr)]
WriteFailed == pc = "exit" /\ stderr # <<>> /\ LastLine = <<"Traceback", "OSError">>
MalformedPayload ==
    /\ pc = "exit"
    /\ stderr # <<>>
    /\ LastLine[1] = "Traceback"
    /\ LastLine[2] \in {"JSONDecodeError", "KeyError", "TypeError"}

\* C8: every fatal condition ends the run with a non-zero exit code, and a
\* write failure or a malformed payload ends with a code that is not the
\* code of a fetch failure.
C8_DistinctExitCodes ==
    /\ (pc = "exit" /\ stderr # <<>>) => exitCode # <<0>>
    /\ (WriteFailed \/ MalformedPayload) =>
           exitCode \notin {<<RecitersExit>>, <<SurahsExit>>}

LacksField(data, cls) ==
    \E i \in 1..Len(fields(cls)) : fields(cls)[i].wire \notin DOMAIN data.v

PresentNames(data, cls) ==
    {fields(cls)[i].name : i \in {j \in 1..Len(fields(cls)) :
                                     fields(cls)[j].wire \in DOMAIN data.v}}

\* the wire objects of the answer a getter is about to map, nested ones too
ItemsOf(res) == {response.body.data[res].v[i] : i \in 1..Len(response.body.data[res].v)}
NestedItemsOf(S) == UNION {{d.v.moshaf.v[i] : i \in 1..Len(d.v.moshaf.v)} : d \in S}

OmitsAbsentFields(data, cls) ==
    LacksField(data, cls) =>
        /\ ~toDataClass(data, cls).raised
        /\ DOMAIN toDataClass(data, cls).value.kw = PresentNames(data, cls)

\* C10: for every schema and every wire object in which a declared field is
\* absent, toDataClass does not raise and returns a record that omits the
\* field and holds the present ones.
C10_AbsentFieldOmitted ==
    /\ (pc = "surahs_response" /\ CallsToDataClass("suwar", response)) =>
           \A d \in ItemsOf("suwar") : OmitsAbsentFields(d, "Surah")
    /\ (pc = "reciters_response" /\ CallsToDataClass("reciters", response)) =>
           /\ \A d \in ItemsOf("reciters") : OmitsAbsentFields(d, "Reciter")
           /\ \A m \in NestedItemsOf({d \in ItemsOf("reciters") : "moshaf" \in DOMAIN d.v}) :
                  OmitsAbsentFields(m, "Moshaf")

(***************************************************************************)
(* The mapper and the serializer on one payload (SpecSer).                  *)
(***************************************************************************)
\* whether a wire value has the type a schema field declares
RECURSIVE Conforms(_, _)
Conforms(x, ty) ==
    CASE ty = "int" -> x.t = "int"
      [] ty = "str" -> x.t = "str"
      [] IsListOfDataclass(ty) ->
            /\ x.t = "list"
            /\ \A k \in 1..Len(x.v) : Conforms(x.v[k], InnerClass(ty))
      [] is_dataclass(ty) ->
            /\ x.t = "dict"
            /\ \A i \in 1..Len(fields(ty)) :
                  fields(ty)[i].wire \in DOMAIN x.v =>
                      Conforms(x.v[fields(ty)[i].wire], fields(ty)[i].type)

\* the wire objects of the payload, and whether one holds a mismatched value
Objects == [i \in 1..Len(payload.objects) |-> Decode(payload.objects[i])]
Mismatched == \E i \in 1..Len(Objects) : ~Conforms(Objects[i], ClassOf(payload.res))

\* C11: a payload holding a value whose type is not the one its schema field
\* declares makes toDataClass fail: no record is returned for it.
C11_MismatchFails ==
    (stage # "input" /\ Mismatched) => (stage = "failed" /\ records.kind = "raised")

\* the positions of a text holding a double quote that no backslash escapes:
\* the backslashes right before it are even in number
BackslashesBefore(text, i) ==
    LET run == {k \in 0..(i - 1) : \A j \in (i - k)..(i - 1) : text[j] = "\\"}
    IN  CHOOSE k \in run : \A m \in run : m <= k
UnescapedQuotes(text) ==
    {i \in 1..Len(text) : text[i] = "\"" /\ BackslashesBefore(text, i) % 2 = 0}

\* the number of quoted values the rendering of the records holds
RECURSIVE QuotedValues(_)
QuotedValues(r) ==
    CASE r.cls = "Surah" -> 1
      [] r.cls = "Moshaf" -> 3
      [] r.cls = "Reciter" ->
            LET list == r.kw.moshafList.v
                count[k \in 0..Len(list)] ==
                    IF k = 0 THEN 0 ELSE count[k - 1] + QuotedValues(list[k])
            IN  3 + count[Len(list)]
QuotedValuesOfAll(items) ==
    LET count[k \in 0..Len(items)] ==
            IF k = 0 THEN 0 ELSE count[k - 1] + QuotedValues(items[k])
    IN  count[Len(items)]

\* whether a wire value holds the character somewhere in a text
RECURSIVE HoldsChar(_, _)
HoldsChar(x, c) ==
    CASE x.t = "int" -> FALSE
      [] x.t = "str" -> \E i \in 1..Len(x.v) : x.v[i] = c
      [] x.t = "list" -> \E i \in 1..Len(x.v) : HoldsChar(x.v[i], c)
      [] x.t = "dict" -> \E k \in DOMAIN x.v : HoldsChar(x.v[k], c)
PayloadHolds(c) == \E i \in 1..Len(Objects) : HoldsChar(Objects[i], c)

\* C12: a double quote inside a text field is rendered escaped.  For a
\* payload without backslashes, the only double quotes of the rendered text
\* that are not escaped are the two delimiters of each quoted value.
C12_QuotesEscaped ==
    (stage = "rendered" /\ ~PayloadHolds("\\")) =>
        Cardinality(UnescapedQuotes(rendered[2])) = 2 * QuotedValuesOfAll(records.items)

(***************************************************************************)
(* The older generator (SpecKt).                                            *)
(***************************************************************************)
\* a literal grammar: after the opening quote, \" is a quote, \\ a backslash,
\* and the literal ends at the first quote that is not escaped
RECURSIVE ReadLiteral(_, _, _)
ReadLiteral(text, i, acc) ==
    IF i > Len(text) THEN [ok |-> FALSE, value |-> acc, end |-> i]
    ELSE IF text[i] = "\"" THEN [ok |-> TRUE, value |-> acc, end |-> i]
    ELSE IF text[i] = "\\"
         THEN IF i + 1 <= Len(text) /\ text[i + 1] \in {"\"", "\\"}
              THEN ReadLiteral(text, i + 2, Append(acc, text[i + 1]))
              ELSE [ok |-> FALSE, value |-> acc, end |-> i]
    ELSE ReadLiteral(text, i + 1, Append(acc, text[i]))
ParseLiteral(text) ==
    IF text = <<>> \/ text[1] # "\"" THEN [ok |-> FALSE, value |-> <<>>, end |-> 1]
    ELSE ReadLiteral(text, 2, <<>>)

HasQuote(text) == \E i \in 1..Len(text) : text[i] = "\""

\* C13: for a name holding a double quote, the literal made of ktString(name)
\* between two double quotes parses back to the name.
C13_RoundTrip ==
    (escaped # NotCalled /\ surah.name.t = "str" /\ HasQuote(surah.name.v)) =>
        LET parsed == ParseLiteral(<<"\"">> \o escaped.v \o <<"\"">>)
        IN  parsed.ok /\ parsed.value = surah.name.v

\* the text the claim gives for a chapter, cut at its placeholders
Expect_id == <<"S", "u", "r", "a", "h", "(", "i", "d", " ", "=", " ">>
Expect_name == <<",", " ", "n", "a", "m", "e", " ", "=", " ", "\"">>
Expect_startPage == <<"\"", ",", " ", "s", "t", "a", "r", "t", "P", "a",
    "g", "e", " ", "=", " ">>
Expect_endPage == <<",", " ", "e", "n", "d", "P", "a", "g", "e", " ", "=",
    " ">>
Expect_makkia == <<",", " ", "m", "a", "k", "k", "i", "a", " ", "=", " ">>
Expect_type == <<",", " ", "t", "y", "p", "e", " ", "=", " ">>
Expect_end == <<")">>
ExpectedSurah(w) ==
    Expect_id \o Format(w.id) \o Expect_name \o Format(w.name)
    \o Expect_startPage \o Format(w.start_page)
    \o Expect_endPage \o Format(w.end_page)
    \o Expect_makkia \o Format(w.makkia) \o Expect_type \o Format(w.type)
    \o Expect_end

\* the fixture of the specification and the text required for it
FixtureText == <<"S", "u", "r", "a", "h", "(", "i", "d", " ", "=", " ",
    "1", ",", " ", "n", "a", "m", "e", " ", "=", " ", "\"", "A", "l", "-",
    "F", "a", "t", "i", "h", "a", "\"", ",", " ", "s", "t", "a", "r", "t",
    "P", "a", "g", "e", " ", "=", " ", "1", ",", " ", "e", "n", "d", "P",
    "a", "g", "e", " ", "=", " ", "1", ",", " ", "m", "a", "k", "k", "i",
    "a", " ", "=", " ", "1", ",", " ", "t", "y", "p", "e", " ", "=", " ",
    "1", ")">>

SurahKeys == {"id", "name", "start_page", "end_page", "makkia", "type"}
OneCompleteSurah ==
    /\ payload.res = "suwar"
    /\ Len(payload.objects) = 1
    /\ SurahKeys \subseteq DOMAIN Objects[1].v

\* C14: a chapter carrying the six keys is mapped and rendered as the text
\* Surah(id = .., name = "..", startPage = .., endPage = .., makkia = ..,
\* type = ..) with its own values, start_page and end_page filling startPage
\* and endPage, whatever the order of the keys of the wire object; the fixture
\* gives exactly the text of the specification.
C14_SurahText ==
    (stage # "input" /\ OneCompleteSurah) =>
        /\ stage \in {"mapped", "rendered"}
        /\ stage = "rendered" =>
              /\ rendered = Text(ExpectedSurah(Objects[1].v))
              /\ Objects[1] = SurahWire => rendered = Text(FixtureText)

\* the fixture, sent with its keys in the reverse of the schema order, is
\* rendered as the required text
C14_Witness ==
    /\ stage = "rendered"
    /\ payload.res = "suwar"
    /\ Len(payload.objects) = 1
    /\ Objects[1] = SurahWire
    /\ payload.objects[1][1].key = "type"
    /\ payload.objects[1][6].key = "id"
    /\ rendered = Text(FixtureText)

\* where a pattern occurs in a text
Occurs(text, pat, i) ==
    /\ i + Len(pat) - 1 <= Len(text)
    /\ \A k \in 1..Len(pat) : text[i + k - 1] = pat[k]
Positions(text, pat) == {i \in 1..Len(text) : Occurs(text, pat, i)}
Least(S) == CHOOSE i \in S : \A j \in S : i <= j
SubText(text, from, to) == [k \in 1..(to - from + 1) |-> text[from + k - 1]]

T_listOf == <<"l", "i", "s", "t", "O", "f", "(">>
T_MoshafOpen == <<"M", "o", "s", "h", "a", "f", "(">>

\* the text between the first `listOf(` and the first `)` after it
ListBody(text) ==
    LET open == Least(Positions(text, T_listOf)) + Len(T_listOf)
        close == Least({i \in Positions(text, T_Close) : i >= open})
    IN  SubText(text, open, close - 1)

OneReciterNoRecitation ==
    /\ payload.res = "reciters"
    /\ Len(payload.objects) = 1
    /\ {"id", "name", "letter", "date", "moshaf"} \subseteq DOMAIN Objects[1].v
    /\ Objects[1].v.moshaf = ListV(<<>>)

\* C15: a reciter with no recitation is mapped and rendered, and between
\* `listOf(` and its closing `)` there is no `Moshaf(` and no comma.
C15_EmptyList ==
    (stage # "input" /\ OneReciterNoRecitation) =>
        /\ stage \in {"mapped", "rendered"}
        /\ stage = "rendered" =>
              /\ Positions(rendered[2], T_listOf) # {}
              /\ Positions(ListBody(rendered[2]), T_MoshafOpen) = {}
              /\ Positions(ListBody(rendered[2]), <<",">>) = {}

\* a reciter without recitation has been rendered, its list literal holding
\* blanks only
C15_Witness ==
    /\ stage = "rendered"
    /\ OneReciterNoRecitation
    /\ records.items[1].kw.moshafList.v = <<>>
    /\ \A i \in 1..Len(ListBody(rendered[2])) : ListBody(rendered[2])[i] \in {" ", "\n"}

\* text.split(sep): the chunks between the occurrences of sep, left to right
RECURSIVE SplitOn(_, _)
SplitOn(text, sep) ==
    IF Positions(text, sep) = {} THEN <<text>>
    ELSE LET p == Least(Positions(text, sep))
         IN  <<SubText(text, 1, p - 1)>>
             \o SplitOn(SubText(text, p + Len(sep), Len(text)), sep)

TwoRecitersTwoRecitations ==
    /\ payload.res = "reciters"
    /\ Len(payload.objects) = 2
    /\ \A i \in 1..2 : /\ "moshaf" \in DOMAIN Objects[i].v
                       /\ Objects[i].v.moshaf.t = "list"
                       /\ Len(Objects[i].v.moshaf.v) = 2

\* C16: the joined rendering of two reciters with two recitations each,
\* split on the blank-line separator, is exactly two chunks, chunk i being
\* the rendering of the record mapped from the i-th object of the payload.
C16_TwoChunks ==
    (stage = "rendered" /\ TwoRecitersTwoRecitations) =>
        SplitOn(rendered[2], T_CommaNlNl) =
            [i \in 1..2 |-> Str(toDataClass(Objects[i], "Reciter").value)]

\* two reciters with two recitations each have been rendered: two chunks,
\* the first of reciter 1 and the second of reciter 2, four recitations
C16_Witness ==
    /\ stage = "rendered"
    /\ TwoRecitersTwoRecitations
    /\ Objects[1].v.id = IntV(1)
    /\ Objects[2].v.id = IntV(2)
    /\ Len(SplitOn(rendered[2], T_CommaNlNl)) = 2
    /\ Cardinality(Positions(rendered[2], T_MoshafOpen)) = 4
    /\ Cardinality(Positions(SplitOn(rendered[2], T_CommaNlNl)[2], T_MoshafOpen)) = 2

(***************************************************************************)
(* The sketch (SpecSketch).                                                 *)
(***************************************************************************)
\* draw is past its loading check: it has observed loading == False
PastLoadingCheck == drawPc \in {"millis", "elapsed", "advance", "store"}

\* C18: whenever draw has passed the loading check, the loader has already
\* reset previousTimestamp; draw never takes the advance branch of its first
\* animated frame with the initial previousTimestamp.
C18_ResetBeforeDraw ==
    /\ PastLoadingCheck => loader = "done"
    /\ (drawPc = "advance" /\ surahIndex = 0) => loader = "done"

\* the frames saved so far, the blurred one apart
IsPlain(frame) == ~frame.blur
PlainFrames == SelectSeq(saved, IsPlain)
IsBlurred(frame) == frame.blur
BlurredFrames == SelectSeq(saved, IsBlurred)

\* the number of cycles whose frame is saved: inside the advance branch the
\* frame of surahIndex is saved before surahIndex is incremented
CyclesSaved == IF drawPc = "store" THEN surahIndex + 1 ELSE surahIndex

FramesInOrder ==
    /\ surahIndex \in 0..NumSurahs
    /\ drawPc # "crashed"
    /\ Len(PlainFrames) = CyclesSaved
    /\ \A k \in 1..Len(PlainFrames) :
          /\ PlainFrames[k].surahIndex = k - 1
          /\ PlainFrames[k].name = sketchSurahs[k - 1]
          /\ PlainFrames[k].file = IF k = 1 THEN T_name_png ELSE NumberedFile(k - 1)
    /\ Len(BlurredFrames) = IF CyclesSaved >= 1 THEN 1 ELSE 0
    /\ (drawPc = "idle" /\ surahIndex = NumSurahs) => ~looping
    /\ surahIndex < NumSurahs => looping

\* C19: in interactive mode, whatever the times of the draw callbacks, the
\* frame of each index is saved exactly once and in increasing order of
\* index, surahIndex stays within 0..len(surahs) and never decreases, and
\* the loop is stopped by the callback in which surahIndex reaches
\* len(surahs).
C19_EachFrameOnce ==
    /\ []((~isHeadless /\ drawPc \notin {"none", "setup"}) => FramesInOrder)
    /\ [][~isHeadless => surahIndex' >= surahIndex]_vars

\* an interactive run has come to its end, all frames saved, with callbacks
\* delayed by more than one cycle on the way
C19_Witness ==
    /\ ~isHeadless
    /\ drawPc = "idle"
    /\ ~looping
    /\ surahIndex = NumSurahs
    /\ Len(saved) = NumSurahs + 1
    /\ loader = "done"
    /\ now - previousTimestamp > cycleDuration

\* a run is complete: headless, setup has called exit_sketch; interactive,
\* draw has stopped the loop at the end of the list
HeadlessComplete == isHeadless /\ exited
InteractiveComplete ==
    ~isHeadless /\ drawPc = "idle" /\ ~looping /\ surahIndex = NumSurahs

\* the files the claim lists, each with the name and the index it is
\* rendered with
ExpectedFile(i) ==
    <<"s", "u", "r", "a", "h", "_", "0", "0">> \o <<Digit(i)>> \o <<".", "p", "n", "g">>
ExpectedFrames ==
    {[file |-> T_blurred_png, name |-> sketchSurahs[0], surahIndex |-> 0, blur |-> TRUE],
     [file |-> T_name_png, name |-> sketchSurahs[0], surahIndex |-> 0, blur |-> FALSE]}
    \cup {[file |-> ExpectedFile(i), name |-> sketchSurahs[i], surahIndex |-> i,
           blur |-> FALSE] : i \in 1..(NumSurahs - 1)}
SavedFrames == {saved[k] : k \in 1..Len(saved)}

\* C20: a complete headless run and a complete interactive run have written
\* the same files, surah_name_blurred.png, surah_name.png and surah_NNN.png
\* for every index from 1 to len(surahs) - 1, each once, each with the name of
\* its index and with surahIndex equal to its index when saveFrame was called.
C20_SameFiles ==
    (HeadlessComplete \/ InteractiveComplete) =>
        /\ SavedFrames = ExpectedFrames
        /\ Len(saved) = NumSurahs + 1

\* a complete interactive run that has written the files of a headless run
C20_Witness ==
    /\ InteractiveComplete
    /\ loader = "done"
    /\ SavedFrames = ExpectedFrames
    /\ saved[Len(saved)].surahIndex = NumSurahs - 1

(***************************************************************************)
(* The driver and an empty result (Spec).                                   *)
(***************************************************************************)
EmptyList == ListOf(<<>>)

\* C21: the driver serializes and writes only when both mapped lists are
\* non-empty; a fetch that succeeds with an empty "reciters" (resp. "suwar")
\* array ends the run as a failed fetch does: the failure line, exit code 1
\* (resp. 2), nothing serialized and the output file as it was.
C21_EmptyIsFailure ==
    /\ (\/ pc \in {"serialize", "write"}
        \/ kotlin # Unset
        \/ file.state \in {"written", "partial"}) =>
           /\ reciters.kind = "list" /\ reciters.items # <<>>
           /\ surahs.kind = "list" /\ surahs.items # <<>>
    /\ (reciters = EmptyList /\ pc # "reciters_check") =>
           /\ pc = "exit"
           /\ exitCode = <<1>>
           /\ stderr = <<<<"FAILED", "Reciters">>>>
           /\ surahs = Unset
           /\ fetched = {"reciters"}
    /\ (surahs = EmptyList /\ pc # "surahs_check") =>
           /\ pc = "exit"
           /\ exitCode = <<2>>
           /\ stderr = <<<<"FAILED", "Surahs">>>>
    /\ (reciters = EmptyList \/ surahs = EmptyList) =>
           /\ kotlin = Unset
           /\ file \in {Absent, OldFile}

\* the surah fetch succeeded with an empty array after a good reciter fetch:
\* the run is over with exit code 2 and the old file untouched
C21_Witness ==
    /\ pc = "exit"
    /\ Truthy(reciters)
    /\ surahs = EmptyList
    /\ fetched = Resources
    /\ exitCode = <<2>>
    /\ file = OldFile

====
